---- MODULE Spec2Model ----
(***************************************************************************)
(* Pickin' Sticks (src/src/main.rs): the resources Score, Speed and Rank,  *)
(* the player and stick entities, the CollisionEvent queue and the         *)
(* deferred command queues, driven by the systems of the Update schedule.  *)
(*                                                                         *)
(* The systems of Update carry no ordering constraint (main.rs:104-122),   *)
(* so within a frame they run one at a time in any order; `ran` is the set *)
(* of systems that have already run in the current frame.  Commands        *)
(* (spawn, despawn) are deferred: they are applied when the schedule ends. *)
(* Positions and speeds are the f32 values of the source, all of which are *)
(* whole numbers in the model.                                             *)
(***************************************************************************)
EXTENDS Integers, Sequences, FiniteSets, TLC

VARIABLES
    player,            \* the entities matching With<Player>: a sequence of [x, y, dir, flip_x]
    sticks,            \* the live entities matching With<Collider>: a set of [id, x, y]
    next_entity,       \* the next entity id Commands::spawn reserves
    score,             \* Score.0
    speed,             \* Speed.0
    rank,              \* Rank.current
    events_a,          \* Events<CollisionEvent>: number of events in the older buffer
    events_b,          \* Events<CollisionEvent>: number of events in the newer buffer
    event_count,       \* Events<CollisionEvent>: events ever sent
    last_event_count,  \* the cursor of update_score_and_speed_system's EventReader
    despawn_queue,     \* player_collision's deferred commands: entity ids to despawn
    spawn_queue,       \* update_score_and_speed_system's deferred commands: sticks to spawn
    ran,               \* systems of Update that have run in the current frame
    first_update,      \* TRUE during the first frame, whose Time delta is zero
    collected,         \* history: sticks player_collision has asked to despawn
    detected,          \* history: ids of the sticks player_collision found overlapping
    waiting,           \* history: per pickup without replacement, frame ends since detection
    rank_read          \* history: the Score update_rank_system read when it last ran

vars == <<player, sticks, next_entity, score, speed, rank, events_a, events_b,
          event_count, last_event_count, despawn_queue, spawn_queue, ran,
          first_update, collected, detected, waiting, rank_read>>

world == <<player, sticks, next_entity, score, speed, rank, events_a, events_b,
           event_count, last_event_count, despawn_queue, spawn_queue>>

history == <<collected, detected, waiting, rank_read>>

(***************************************************************************)
(* Program constants                                                       *)
(***************************************************************************)
WINDOW_WIDTH == 960
WINDOW_HEIGHT == 540
UI_BAR_HEIGHT == 60
WRAP_INSET == 24
SPAWN_MARGIN == 16
STICK_RADIUS == 24
SPRITE_SCALE == 2
INITIAL_SCORE == 0
INITIAL_SPEED == 150
SPEED_INCREMENT == 10
INITIAL_STICK_X == 48
INITIAL_STICK_Y == 0

(***************************************************************************)
(* Bounds of the model                                                     *)
(***************************************************************************)
\* No frame starts once Score has reached MaxScore.
MaxScore == 5
\* Distance the player covers in a frame with a non-zero Time delta.
Step == 504
\* update_rank_system is applied to every Score in -RankRange .. RankRange.
RankRange == 40
\* player_screen_wrapping is applied to positions up to WrapRange past an edge.
WrapRange == 3

Systems == {"player_input", "player_movement", "player_screen_wrapping",
            "player_collision", "update_score_and_speed_system",
            "update_rank_system"}

Keys == {"KeyW", "KeyS", "KeyA", "KeyD"}

Min(a, b) == IF a < b THEN a ELSE b
Max(a, b) == IF a > b THEN a ELSE b
SetMax(S) == CHOOSE m \in S : \A k \in S : k <= m
SetMin(S) == CHOOSE m \in S : \A k \in S : m <= k

\* The system s takes its turn in the current frame.
Runs(s) == s \notin ran /\ ran' = ran \cup {s}

(***************************************************************************)
(* Engine calls the systems make                                           *)
(***************************************************************************)
\* Query::get_single / get_single_mut: Ok only when exactly one entity matches.
get_single(q) == Len(q) = 1

\* BoundingCircle::intersects(&Aabb2d): the circle reaches the box's closest point.
Clamp(v, lo, hi) == Max(lo, Min(v, hi))
intersects(cx, cy, radius, bx, by, half) ==
    LET px == Clamp(cx, bx - half, bx + half)
        py == Clamp(cy, by - half, by + half)
    IN  (cx - px) * (cx - px) + (cy - py) * (cy - py) <= radius * radius

is_colliding(cx, cy, radius, bx, by, half) ==
    IF ~intersects(cx, cy, radius, bx, by, half) THEN FALSE ELSE TRUE

\* EventReader::len: the events sent since the reader's cursor that are still buffered.
EventReader_len(sent, cursor, a, b) == Min(Max(sent - cursor, 0), a + b)

\* EventReader::clear: the cursor moves past every event sent so far.
\* Variant: clear() is never called, so the cursor stays.
EventReader_clear_skipped(sent, cursor) == cursor
EventReader_clear(sent, cursor) == sent

\* Commands::entity(e).despawn(), queued until the schedule ends.
\* Variant: the despawn command is never queued.
despawn_dropped(queue, e) == queue
despawn(queue, e) == queue \cup {e}

\* rng.gen_range(lo..hi): a value of the half-open range; the model draws the
\* two ends of the range and the values next to them.
gen_range(range) ==
    {v \in {range[1] - 1, range[1], range[2] - 1, range[2]} :
        range[1] <= v /\ v < range[2]}

\* Time::delta_seconds as a fraction <<numerator, denominator>>: zero on the
\* first update, and otherwise such that the player covers Step at this speed.
Deltas == IF first_update THEN {<<0, 1>>, <<Step, speed>>}
          ELSE {<<Step, speed>>}

(***************************************************************************)
(* Startup: setup_resources and setup                                      *)
(***************************************************************************)
thresholds == (1 :> "Weak") @@ (5 :> "Decent") @@ (10 :> "Ok")

initial_player == [x |-> 0, y |-> 0, dir |-> "Stationary", flip_x |-> FALSE]
initial_stick == [id |-> 0, x |-> INITIAL_STICK_X, y |-> INITIAL_STICK_Y]

Init ==
    /\ player = <<initial_player>>
    /\ sticks = {initial_stick}
    /\ next_entity = 1
    /\ score = INITIAL_SCORE
    /\ speed = INITIAL_SPEED
    /\ rank = "Weak"
    /\ events_a = 0
    /\ events_b = 0
    /\ event_count = 0
    /\ last_event_count = 0
    /\ despawn_queue = {}
    /\ spawn_queue = {}
    /\ ran = {}
    /\ first_update = TRUE
    /\ collected = 0
    /\ detected = {}
    /\ waiting = <<>>
    /\ rank_read = INITIAL_SCORE

(***************************************************************************)
(* player_input                                                            *)
(***************************************************************************)
\* Variant: the direction falls back to Stationary when no key is pressed.
input_direction_released(dir, keys) ==
    IF "KeyD" \in keys THEN "Right"
    ELSE IF "KeyA" \in keys THEN "Left"
    ELSE IF "KeyS" \in keys THEN "Down"
    ELSE IF "KeyW" \in keys THEN "Up"
    ELSE "Stationary"

input_direction(dir, keys) ==
    LET d1 == IF "KeyW" \in keys THEN "Up" ELSE dir
        d2 == IF "KeyS" \in keys THEN "Down" ELSE d1
        d3 == IF "KeyA" \in keys THEN "Left" ELSE d2
    IN  IF "KeyD" \in keys THEN "Right" ELSE d3

input_flip_x(flip_x, keys) ==
    LET f1 == IF "KeyA" \in keys THEN TRUE ELSE flip_x
    IN  IF "KeyD" \in keys THEN FALSE ELSE f1

player_input ==
    /\ Runs("player_input")
    /\ \E keys \in SUBSET Keys :
         player' = IF ~get_single(player) THEN player
                   ELSE <<[player[1] EXCEPT
                             !.dir = input_direction(player[1].dir, keys),
                             !.flip_x = input_flip_x(player[1].flip_x, keys)]>>
    /\ UNCHANGED <<sticks, next_entity, score, speed, rank, events_a, events_b,
                   event_count, last_event_count, despawn_queue, spawn_queue,
                   first_update, history>>

(***************************************************************************)
(* player_movement                                                         *)
(***************************************************************************)
cur_speed(s, dt) == (s * dt[1]) \div dt[2]

moved(p, d) ==
    CASE p.dir = "Up"    -> [p EXCEPT !.y = p.y + d]
      [] p.dir = "Down"  -> [p EXCEPT !.y = p.y - d]
      [] p.dir = "Right" -> [p EXCEPT !.x = p.x + d]
      [] p.dir = "Left"  -> [p EXCEPT !.x = p.x - d]
      [] OTHER           -> p

\* The loop over the query, which returns at the first Stationary entity.
RECURSIVE move_from(_, _, _)
move_from(q, i, d) ==
    IF i > Len(q) THEN q
    ELSE IF q[i].dir = "Stationary" THEN q
    ELSE move_from([q EXCEPT ![i] = moved(q[i], d)], i + 1, d)

player_movement ==
    /\ Runs("player_movement")
    /\ \E dt \in Deltas : player' = move_from(player, 1, cur_speed(speed, dt))
    /\ UNCHANGED <<sticks, next_entity, score, speed, rank, events_a, events_b,
                   event_count, last_event_count, despawn_queue, spawn_queue,
                   first_update, history>>

(***************************************************************************)
(* player_screen_wrapping                                                  *)
(***************************************************************************)
\* Variant: the inset is added on the wrong side of the edge.
wrap_x_no_inset(x) ==
    IF x < (-WINDOW_WIDTH) \div 2 THEN (WINDOW_WIDTH \div 2) + WRAP_INSET
    ELSE IF x > WINDOW_WIDTH \div 2 THEN -(WINDOW_WIDTH \div 2) - WRAP_INSET
    ELSE x

wrap_x(x) ==
    IF x < (-WINDOW_WIDTH) \div 2 THEN (WINDOW_WIDTH \div 2) - WRAP_INSET
    ELSE IF x > WINDOW_WIDTH \div 2 THEN -(WINDOW_WIDTH \div 2) + WRAP_INSET
    ELSE x

wrap_y(y) ==
    IF y < (-WINDOW_HEIGHT) \div 2 + UI_BAR_HEIGHT
    THEN (WINDOW_HEIGHT \div 2) - UI_BAR_HEIGHT - WRAP_INSET
    ELSE IF y > WINDOW_HEIGHT \div 2 - UI_BAR_HEIGHT
    THEN -(WINDOW_HEIGHT \div 2) + UI_BAR_HEIGHT + WRAP_INSET
    ELSE y

player_screen_wrapping ==
    /\ Runs("player_screen_wrapping")
    /\ player' = IF ~get_single(player) THEN player
                 ELSE <<[player[1] EXCEPT !.x = wrap_x(player[1].x),
                                          !.y = wrap_y(player[1].y)]>>
    /\ UNCHANGED <<sticks, next_entity, score, speed, rank, events_a, events_b,
                   event_count, last_event_count, despawn_queue, spawn_queue,
                   first_update, history>>

(***************************************************************************)
(* player_collision                                                        *)
(***************************************************************************)
\* Variant: a missing player is replaced by one at the origin instead of returning.
collisions_default_player(q, s) ==
    LET px == IF get_single(q) THEN q[1].x ELSE 0
        py == IF get_single(q) THEN q[1].y ELSE 0
    IN  {e \in s : is_colliding(e.x, e.y, STICK_RADIUS, px, py, SPRITE_SCALE \div 2)}

\* The sticks of the query that overlap the player; none without a single player.
collisions(q, s) ==
    IF ~get_single(q) THEN {}
    ELSE {e \in s : is_colliding(e.x, e.y, STICK_RADIUS,
                                 q[1].x, q[1].y, SPRITE_SCALE \div 2)}

\* The despawn commands of the loop, one per colliding stick.
RECURSIVE despawn_all(_, _)
despawn_all(queue, hits) ==
    IF hits = {} THEN queue
    ELSE LET e == CHOOSE h \in hits : TRUE
         IN  despawn_all(despawn(queue, e.id), hits \ {e})

player_collision ==
    LET hits == collisions(player, sticks)
    IN  /\ Runs("player_collision")
        /\ events_b' = events_b + Cardinality(hits)
        /\ event_count' = event_count + Cardinality(hits)
        /\ despawn_queue' = despawn_all(despawn_queue, hits)
        /\ collected' = collected + Cardinality(despawn_queue' \ despawn_queue)
        /\ detected' = detected \cup {e.id : e \in hits}
        /\ waiting' = waiting \o [i \in 1 .. Cardinality(hits) |-> 0]
        /\ UNCHANGED <<player, sticks, next_entity, score, speed, rank, events_a,
                       last_event_count, spawn_queue, first_update, rank_read>>

(***************************************************************************)
(* update_score_and_speed_system and spawn_new_stick                       *)
(***************************************************************************)
spawn_x_range == <<(-WINDOW_WIDTH) \div 2 + SPAWN_MARGIN,
                   WINDOW_WIDTH \div 2 - SPAWN_MARGIN>>

\* Variant: the height of the two UI bars is not taken off the vertical range.
spawn_y_range_without_bars == <<(-WINDOW_HEIGHT) \div 2 + SPAWN_MARGIN,
                                WINDOW_HEIGHT \div 2 - SPAWN_MARGIN>>

spawn_y_range == <<(-WINDOW_HEIGHT) \div 2 + SPAWN_MARGIN + UI_BAR_HEIGHT,
                   WINDOW_HEIGHT \div 2 - SPAWN_MARGIN - UI_BAR_HEIGHT>>

\* Variant: spawn_new_stick is not called.
spawn_new_stick_forgotten(queue, id, x, y) == queue
\* The spawn command spawn_new_stick queues for a stick at (x, y).
spawn_new_stick(queue, id, x, y) == queue \cup {[id |-> id, x |-> x, y |-> y]}

\* The pickups that still wait for a replacement once n sticks have been queued.
Replaced(w, n) == SubSeq(w, Min(n, Len(w)) + 1, Len(w))

\* Variant: the speed increment sits outside the `if`.
update_score_and_speed_system_speed_outside ==
    /\ Runs("update_score_and_speed_system")
    /\ speed' = speed + SPEED_INCREMENT
    /\ IF EventReader_len(event_count, last_event_count, events_a, events_b) # 0
       THEN /\ last_event_count' = EventReader_clear(event_count, last_event_count)
            /\ score' = score + 1
            /\ \E x \in gen_range(spawn_x_range), y \in gen_range(spawn_y_range) :
                 spawn_queue' = spawn_new_stick(spawn_queue, next_entity, x, y)
            /\ next_entity' = next_entity + 1
       ELSE UNCHANGED <<last_event_count, score, spawn_queue, next_entity>>
    /\ waiting' = Replaced(waiting, Cardinality(spawn_queue' \ spawn_queue))
    /\ UNCHANGED <<player, sticks, rank, events_a, events_b, event_count,
                   despawn_queue, first_update, collected, detected, rank_read>>

update_score_and_speed_system ==
    /\ Runs("update_score_and_speed_system")
    /\ IF EventReader_len(event_count, last_event_count, events_a, events_b) # 0
       THEN /\ last_event_count' = EventReader_clear(event_count, last_event_count)
            /\ score' = score + 1
            /\ speed' = speed + SPEED_INCREMENT
            /\ \E x \in gen_range(spawn_x_range), y \in gen_range(spawn_y_range) :
                 spawn_queue' = spawn_new_stick(spawn_queue, next_entity, x, y)
            /\ next_entity' = next_entity + 1
       ELSE UNCHANGED <<last_event_count, score, speed, spawn_queue, next_entity>>
    /\ waiting' = Replaced(waiting, Cardinality(spawn_queue' \ spawn_queue))
    /\ UNCHANGED <<player, sticks, rank, events_a, events_b, event_count,
                   despawn_queue, first_update, collected, detected, rank_read>>

(***************************************************************************)
(* update_rank_system                                                      *)
(***************************************************************************)
max_by_key(reached) == SetMax(reached)

\* Variant: min_by_key in place of max_by_key.
new_rank_min_by_key(s) ==
    LET reached == {threshold \in DOMAIN thresholds : s >= threshold}
    IN  IF reached = {} THEN "Weak" ELSE thresholds[SetMin(reached)]

new_rank(s) ==
    LET reached == {threshold \in DOMAIN thresholds : s >= threshold}
    IN  IF reached = {} THEN "Weak" ELSE thresholds[max_by_key(reached)]

update_rank_system ==
    /\ Runs("update_rank_system")
    /\ rank' = IF new_rank(score) # rank THEN new_rank(score) ELSE rank
    /\ rank_read' = score
    /\ UNCHANGED <<player, sticks, next_entity, score, speed, events_a, events_b,
                   event_count, last_event_count, despawn_queue, spawn_queue,
                   first_update, collected, detected, waiting>>

(***************************************************************************)
(* The frame boundary: the Update schedule ends and applies the deferred   *)
(* commands, then the next frame's First schedule rotates the event        *)
(* buffers (Events::update), so that an event stays readable in the frame  *)
(* it is sent in and in the frame after.                                   *)
(***************************************************************************)
NextFrame ==
    /\ ran = Systems
    /\ score < MaxScore
    /\ ran' = {}
    /\ first_update' = FALSE
    /\ sticks' = {e \in sticks : e.id \notin despawn_queue} \cup spawn_queue
    /\ despawn_queue' = {}
    /\ spawn_queue' = {}
    /\ events_a' = events_b
    /\ events_b' = 0
    /\ waiting' = [i \in 1 .. Len(waiting) |-> waiting[i] + 1]
    /\ UNCHANGED <<player, next_entity, score, speed, rank, event_count,
                   last_event_count, collected, detected, rank_read>>

Next ==
    \/ player_input
    \/ player_movement
    \/ player_screen_wrapping
    \/ player_collision
    \/ update_score_and_speed_system
    \/ update_rank_system
    \/ NextFrame

Spec == Init /\ [][Next]_vars

(***************************************************************************)
(* update_rank_system as a function of Score: every Score of the range,    *)
(* with any label as the current one.                                      *)
(***************************************************************************)
RankInit ==
    /\ Init!1 /\ Init!2 /\ Init!3
    /\ score \in -RankRange .. RankRange
    /\ speed = INITIAL_SPEED
    /\ rank \in {thresholds[k] : k \in DOMAIN thresholds}
    /\ events_a = 0 /\ events_b = 0 /\ event_count = 0 /\ last_event_count = 0
    /\ despawn_queue = {} /\ spawn_queue = {} /\ ran = {} /\ first_update = TRUE
    /\ collected = 0 /\ detected = {} /\ waiting = <<>> /\ rank_read = score

RankSpec == RankInit /\ [][update_rank_system]_vars

(***************************************************************************)
(* player_screen_wrapping as a function of the position: positions on, and *)
(* up to WrapRange on either side of, each edge.                           *)
(***************************************************************************)
NearEdges(edge) ==
    UNION {{-edge - k, -edge + k, edge - k, edge + k} : k \in 0 .. WrapRange} \cup {0}

WrapInit ==
    /\ \E x \in NearEdges(WINDOW_WIDTH \div 2),
          y \in NearEdges(WINDOW_HEIGHT \div 2 - UI_BAR_HEIGHT),
          d \in {"Stationary", "Up", "Down", "Left", "Right"} :
         player = <<[initial_player EXCEPT !.x = x, !.y = y, !.dir = d]>>
    /\ Init!2 /\ Init!3 /\ Init!4 /\ Init!5 /\ Init!6 /\ Init!7 /\ Init!8
    /\ Init!9 /\ Init!10 /\ Init!11 /\ Init!12 /\ Init!13 /\ Init!14
    /\ Init!15 /\ Init!16 /\ Init!17 /\ Init!18

WrapSpec == WrapInit /\ [][player_screen_wrapping]_vars

(***************************************************************************)
(* The systems in a world without a player entity.  The program itself     *)
(* spawns the player at Startup and never despawns it; this world is the   *)
(* one the guards `let Ok(..) = ..get_single() else { return }` are for.   *)
(***************************************************************************)
NoPlayerInit ==
    /\ player = <<>>
    /\ \E x \in {INITIAL_STICK_X, 0} \cup gen_range(spawn_x_range),
          y \in {INITIAL_STICK_Y} \cup gen_range(spawn_y_range) :
         sticks = {[id |-> 0, x |-> x, y |-> y]}
    /\ Init!3 /\ Init!4 /\ Init!5 /\ Init!6 /\ Init!7 /\ Init!8
    /\ Init!9 /\ Init!10 /\ Init!11 /\ Init!12 /\ Init!13 /\ Init!14
    /\ Init!15 /\ Init!16 /\ Init!17 /\ Init!18

NoPlayerSpec == NoPlayerInit /\ [][Next]_vars

(***************************************************************************)
(* Properties                                                              *)
(***************************************************************************)
\* A frame boundary: the deferred commands are applied, no system has run yet.
AtFrameBoundary == ran = {}
\* The end of a frame's update pass: every system has run.
EndOfPass == ran = Systems
\* The step in which system s runs.
StepOf(s) == s \notin ran /\ s \in ran'
\* Pickups whose CollisionEvent update_score_and_speed_system has not consumed.
Pending == event_count - last_event_count
\* The label of the greatest threshold of {1: Weak, 5: Decent, 10: Ok} not above s.
TableLabel(s) == IF s >= 10 THEN "Ok" ELSE IF s >= 5 THEN "Decent" ELSE "Weak"

\* C1: Score starts at 0, changes only in update_score_and_speed_system and only
\* by +1, and at every frame boundary equals the number of sticks collected
\* minus the pickups whose event has not been consumed yet (so no pickup is
\* counted twice and none is dropped).
C1_ScoreCountsEachPickupOnce ==
    /\ score = 0 /\ collected = 0
    /\ [][ /\ score' # score =>
                /\ score' = score + 1
                /\ StepOf("update_score_and_speed_system")
           /\ collected' # collected => StepOf("player_collision")
           /\ AtFrameBoundary' => /\ score' = collected' - Pending'
                                  /\ Pending' \in {0, 1} ]_vars

C1_Witness ==
    AtFrameBoundary /\ score >= 2 /\ Pending = 1 /\ collected = score + 1

\* C2: in every reachable state Speed = 150 + 10 * Score.
C2_SpeedFollowsScore == speed = 150 + 10 * score

C2_Witness == score = 3 /\ speed = 180

\* C3: after update_rank_system has run, Rank.current is the label of the
\* greatest threshold not exceeding Score, and Weak when Score reaches none.
C3_RankIsHighestThresholdReached ==
    "update_rank_system" \in ran =>
        /\ rank = TableLabel(score)
        /\ score <= 0 => rank = "Weak"
        /\ score \in 1 .. 4 => rank = "Weak"
        /\ score \in 5 .. 9 => rank = "Decent"
        /\ score >= 10 => rank = "Ok"

C3_Witness == "update_rank_system" \in ran /\ score = 10 /\ rank = "Ok"

\* C4: a stick player_collision found overlapping is gone at the next frame
\* boundary, and every pickup gets exactly one replacement, queued by
\* update_score_and_speed_system before the end of the frame after the one of
\* the contact (no pickup waits through two frame ends).
C4_DespawnedAndReplacedWithinAFrame ==
    /\ AtFrameBoundary => \A e \in sticks : e.id \notin detected
    /\ \A i \in 1 .. Len(waiting) : waiting[i] <= 1
    /\ (next_entity - 1) + Len(waiting) = Cardinality(detected)

C4_Witness ==
    /\ AtFrameBoundary /\ waiting = <<1>> /\ sticks = {}
    /\ Cardinality(detected) >= 2

\* C5: the initial stick is at (48, 0), every spawned stick has x in [-464, 464)
\* and y in [-194, 194), and all of them lie within |x| <= 480 and |y| <= 210.
C5_SticksInsidePlayableArea ==
    \A e \in sticks \cup spawn_queue :
        /\ e.id = 0 => e.x = 48 /\ e.y = 0
        /\ e.id # 0 => /\ -464 <= e.x /\ e.x < 464
                       /\ -194 <= e.y /\ e.y < 194
        /\ -480 <= e.x /\ e.x <= 480
        /\ -210 <= e.y /\ e.y <= 210

C5_Witness ==
    \E e \in sticks : e.id # 0 /\ e.x = 463 /\ e.y = -194

\* C6: without a player entity, player_input, player_screen_wrapping and
\* player_collision change nothing, and in such a frame no CollisionEvent is
\* sent, no stick is despawned, and Score, Speed and the live sticks stay.
C6_NoPlayerNoUpdate ==
    [][ player = <<>> =>
          /\ (StepOf("player_input") \/ StepOf("player_screen_wrapping")
                \/ StepOf("player_collision")) => UNCHANGED <<world, history>>
          /\ player' = player
          /\ event_count' = event_count
          /\ despawn_queue' = {}
          /\ score' = score /\ speed' = speed /\ sticks' = sticks ]_vars

C6_Witness ==
    /\ player = <<>> /\ ~first_update /\ EndOfPass
    /\ \E e \in sticks : e.x = 0 /\ e.y = 0

\* C7: player_screen_wrapping moves a position past an edge to the opposite
\* edge inset by 24, leaves any other position unchanged, and leaves the
\* player within -480 <= x <= 480 and -210 <= y <= 210.
C7_WrappedAtScreenEdges ==
    [][ (StepOf("player_screen_wrapping") /\ Len(player) = 1) =>
          LET x == player[1].x   y == player[1].y
              nx == player'[1].x ny == player'[1].y
          IN  /\ -480 <= nx /\ nx <= 480 /\ -210 <= ny /\ ny <= 210
              /\ x < -480 => nx = 456
              /\ x > 480 => nx = -456
              /\ y < -210 => ny = 186
              /\ y > 210 => ny = -186
              /\ (-480 <= x /\ x <= 480) => nx = x
              /\ (-210 <= y /\ y <= 210) => ny = y ]_vars

C7_Witness ==
    /\ "player_screen_wrapping" \in ran
    /\ player[1].x = 456 /\ player[1].y = -186

\* C8: at the end of every frame's update pass Rank.current is the label for
\* the Score held at the end of that pass, whatever order the systems ran in.
\* Violated when update_rank_system runs before update_score_and_speed_system
\* in a frame whose pickup takes Score across a threshold.
C8_RankMatchesScoreAtEndOfPass == EndOfPass => rank = TableLabel(score)

\* What the unordered schedule does give for C8: at the end of every pass
\* Rank.current is the label for the Score update_rank_system read when it ran
\* in that pass, which is the Score at the end of the pass or one less.
RankLagsByAtMostOnePickup ==
    EndOfPass => /\ rank = TableLabel(rank_read)
                 /\ rank_read \in {score, score - 1}

\* C9: at every frame boundary the live sticks plus the pickups whose event has
\* not been consumed number exactly 1, and player_collision never sends more
\* than one CollisionEvent in a frame.
C9_OneStickOrOnePendingPickup ==
    /\ Cardinality(sticks) + Pending = 1
    /\ [][ /\ AtFrameBoundary' => Cardinality(sticks') + Pending' = 1
           /\ event_count' <= event_count + 1 ]_vars

C9_Witness ==
    AtFrameBoundary /\ sticks = {} /\ Pending = 1 /\ score >= 1

\* C10: a direction that has left Stationary never returns to it, and from the
\* frame after the first key press on, player_movement changes the position
\* in every frame.
C10_NeverStationaryAgain ==
    [][ (Len(player) = 1 /\ player[1].dir # "Stationary") =>
          /\ player'[1].dir # "Stationary"
          /\ (StepOf("player_movement") /\ ~first_update) =>
                <<player'[1].x, player'[1].y>> # <<player[1].x, player[1].y>>
          /\ ~StepOf("player_input") => player'[1].dir = player[1].dir ]_vars

C10_Witness ==
    /\ ~first_update /\ "player_movement" \in ran
    /\ player[1].dir = "Down" /\ player[1].y = -Step /\ player[1].x = 48

====
